---- MODULE Spec2Model ----
(***************************************************************************)
(* AutoRSS bot (src/main.py): one run of main() polls the RSS feed, skips  *)
(* the posts recorded in processed_posts.txt, asks Gemini for a Twitter    *)
(* thread for a new post, posts the thread as a reply chain and appends    *)
(* the post id to processed_posts.txt.                                     *)
(*                                                                         *)
(* Strings are sequences of one-character strings.  None is modelled by a  *)
(* flag next to the value (has_id, isNone) or, for tweet ids, by NoTweet.  *)
(* The history variables record the calls a run has made; they are reset   *)
(* when the next run starts.                                               *)
(***************************************************************************)
EXTENDS Integers, Sequences, FiniteSets, TLC

VARIABLES
    env,                     \* module-level configuration read from os.environ
    file,                    \* processed_posts.txt: [exists, text]
    run,                     \* number of the current invocation of main()
    pc,                      \* position of the run inside main()
    processed_posts,         \* main: set returned by load_processed_posts()
    posts,                   \* main: entries returned by get_latest_posts()
    idx,                     \* main: position of `for post in posts`
    i,                       \* summarize_with_gemini: loop variable of range(3)
    social_posts,            \* main: value returned by summarize_with_gemini
    twitter_thread,          \* main: social_posts.get("twitter_thread"), as its length
    seg,                     \* post_to_twitter: segments posted so far (enumerate index)
    last_tweet_id,           \* post_to_twitter: id of the previous tweet, NoTweet for None
    twitter_post_successful, \* main: value returned by post_to_twitter
    file0,                   \* history: the file as it was when the run started
    attempt_log,             \* history: how each attempt of the summarize call ended,
                             \*          kept until main() has tested the returned value
    sleeps,                  \* history: time.sleep(2) calls of that summarize call
    synth_calls,             \* history: feed positions passed to summarize_with_gemini, in order
    pub_calls,               \* history: feed positions passed to post_to_twitter, in order
    commits,                 \* history: feed positions passed to save_processed_post, in order
    tweets,                  \* history: create_tweet calls that returned, in order
    create_calls,            \* history: number of create_tweet calls made
    failed_at,               \* history: segment whose create_tweet call raised, 0 if none
    outcome                  \* history: what main() did with each feed position

vars == << env, file, run, pc, processed_posts, posts, idx, i, social_posts,
           twitter_thread, seg, last_tweet_id, twitter_post_successful, file0,
           attempt_log, sleeps, synth_calls, pub_calls, commits, tweets,
           create_calls, failed_at, outcome >>

(***************************************************************************)
(* Bounds of the model.                                                    *)
(***************************************************************************)
MaxFeed == 2        \* longest feed returned by get_latest_posts
MaxThread == 3      \* longest twitter_thread in a backend response
MaxRuns == 2        \* invocations of main() by the external scheduler

(***************************************************************************)
(* Program constants.                                                      *)
(***************************************************************************)
RetryCount_Four == 3 + 1     \* a bug: one attempt too many
RetryCount == 3     \* for i in range(3)
NoTweet == -1       \* last_tweet_id = None

(***************************************************************************)
(* Strings.                                                                *)
(***************************************************************************)
NL == "\n"
Whitespace == {" ", NL}

RECURSIVE LStrip(_)
LStrip(s) ==
    IF s # << >> /\ Head(s) \in Whitespace THEN LStrip(Tail(s)) ELSE s

RECURSIVE RStrip(_)
RStrip(s) ==
    IF s # << >> /\ s[Len(s)] \in Whitespace
    THEN RStrip(SubSeq(s, 1, Len(s) - 1))
    ELSE s

\* str.strip()
Strip(s) == RStrip(LStrip(s))

\* Iteration over a text file: the lines of the text, each up to and
\* including its newline; a last line with no newline is a line too.
RECURSIVE FileLines(_, _)
FileLines(text, cur) ==
    IF text = << >>
    THEN IF cur = << >> THEN << >> ELSE << cur >>
    ELSE IF Head(text) = NL
         THEN << Append(cur, NL) >> \o FileLines(Tail(text), << >>)
         ELSE FileLines(Tail(text), Append(cur, Head(text)))

\* load_processed_posts()
load_processed_posts(f) ==
    IF ~f.exists
    THEN {}
    ELSE LET lines == FileLines(f.text, << >>)
         IN  { Strip(lines[n]) : n \in 1..Len(lines) }

\* A bug: open(..., "w") for open(..., "a"), the file is written anew.
save_processed_post_Truncates(f, url) ==
    [exists |-> TRUE, text |-> url \o << NL >>]

\* save_processed_post(url): open(..., "a") creates the file and appends.
save_processed_post(f, url) ==
    [exists |-> TRUE, text |-> f.text \o url \o << NL >>]

(***************************************************************************)
(* Feed entries.                                                           *)
(***************************************************************************)
StrA == << "a" >>
StrB == << "b" >>
StrASp == << "a", " " >>
StrEmpty == << >>

Entry(has_id, id, link, has_summary, summary) ==
    [has_id |-> has_id, id |-> id, link |-> link,
     has_summary |-> has_summary, summary |-> summary]

Entries ==
    { Entry(TRUE, StrA, StrB, TRUE, StrA),          \* id "a"
      Entry(FALSE, StrEmpty, StrB, TRUE, StrA),     \* no id: the link "b"
      Entry(TRUE, StrASp, StrA, TRUE, StrB),        \* id "a " (trailing blank)
      Entry(TRUE, StrB, StrB, FALSE, StrEmpty)      \* id "b", no summary
    }

Feeds == UNION { [1..n -> Entries] : n \in 0..MaxFeed }

\* post.get('id', post.link)
PostId(post) == IF post.has_id THEN post.id ELSE post.link

\* not original_summary
NoSummary(post) == ~post.has_summary \/ post.summary = << >>

(***************************************************************************)
(* Backend responses.  A response text is a sequence of tokens: braces,    *)
(* prose, and the members a JSON object can hold: the pair                 *)
(* "twitter_thread": [n strings] and a pair with some other key.  Of the   *)
(* text of a thread the model keeps whether its first tweet has the format *)
(* the prompt asks for (date, title and link, line 44).                    *)
(***************************************************************************)
Tok(c) == [c |-> c, n |-> 0, first_ok |-> TRUE]
LBrace == Tok("{")
RBrace == Tok("}")
Prose == Tok("p")
OtherPair == Tok("k")
ThreadPair(n) == [c |-> "twitter_thread", n |-> n, first_ok |-> TRUE]
\* a thread whose first tweet leaves out the date, the title or the link
OffFormatThreadPair(n) == [c |-> "twitter_thread", n |-> n, first_ok |-> FALSE]

IsPair(t) == t.c \in {"k", "twitter_thread"}

Response(raises, text, blocked) ==
    [raises |-> raises, text |-> text, blocked |-> blocked]

Responses ==
    { Response(TRUE, << >>, FALSE),                   \* generate_content raises
      Response(FALSE, << >>, TRUE),                   \* blocked: no text
      Response(FALSE, << >>, FALSE),                  \* empty text
      Response(FALSE, << Prose >>, FALSE),            \* no brace at all
      Response(FALSE, << LBrace, Prose >>, FALSE),    \* no closing brace
      Response(FALSE, << RBrace, LBrace >>, FALSE),   \* braces in the wrong order
      Response(FALSE, << LBrace, Prose, RBrace >>, FALSE),   \* not JSON
      Response(FALSE, << LBrace, RBrace >>, FALSE),          \* {}
      Response(FALSE, << Prose, LBrace, OtherPair, RBrace, Prose >>, FALSE) }
    \cup { Response(FALSE, << LBrace, ThreadPair(n), RBrace >>, FALSE) :
             n \in 0..MaxThread }
    \cup { Response(FALSE, << Prose, LBrace, OtherPair, ThreadPair(1), RBrace >>, FALSE) }

\* Responses that are JSON and hold a thread, but not in the format asked for.
OffFormatResponses ==
    { Response(FALSE, << LBrace, OffFormatThreadPair(n), RBrace >>, FALSE) :
        n \in 1..MaxThread }

\* str.find(ch): index (from 0) of the first ch, -1 when there is none
Find(text, ch) ==
    LET at == { n \in 1..Len(text) : text[n] = ch }
    IN  IF at = {} THEN -1
        ELSE (CHOOSE n \in at : \A m \in at : n <= m) - 1

\* str.rfind(ch): index (from 0) of the last ch, -1 when there is none
RFind(text, ch) ==
    LET at == { n \in 1..Len(text) : text[n] = ch }
    IN  IF at = {} THEN -1
        ELSE (CHOOSE n \in at : \A m \in at : n >= m) - 1

\* text[a:b] for indices a, b >= 0
Slice(text, a, b) == SubSeq(text, a + 1, b)

\* A parsed JSON object (a dict): its keys and the length of twitter_thread.
Dict(keys, n, first_ok) ==
    [keys |-> keys, twitter_thread |-> n, first_ok |-> first_ok]
EmptyDict == Dict({}, 0, TRUE)

\* json.loads(s): ok is FALSE for json.JSONDecodeError.  Of two pairs with
\* the same key the later one wins.
JsonLoads(s) ==
    LET inner == SubSeq(s, 2, Len(s) - 1)
        wellFormed == /\ Len(s) >= 2
                      /\ s[1] = LBrace
                      /\ s[Len(s)] = RBrace
                      /\ \A n \in 1..Len(inner) : IsPair(inner[n])
        threads == { n \in 1..Len(inner) : inner[n].c = "twitter_thread" }
        last == CHOOSE n \in threads : \A m \in threads : n >= m
    IN  IF ~wellFormed
        THEN [ok |-> FALSE, obj |-> EmptyDict]
        ELSE [ok |-> TRUE,
              obj |-> Dict({ inner[n].c : n \in 1..Len(inner) },
                           IF threads = {} THEN 0 ELSE inner[last].n,
                           IF threads = {} THEN TRUE ELSE inner[last].first_ok)]

\* The value summarize_with_gemini returns: None or a dict.
None == [isNone |-> TRUE, obj |-> EmptyDict]
Some(obj) == [isNone |-> FALSE, obj |-> obj]

\* What one pass of the body of `for i in range(3)` does with a response:
\*   "return"   return json.loads(json_string)              (line 79)
\*   "continue" empty text or no brace found: continue      (lines 67, 76)
\*   "except"   an exception was caught                     (lines 81-86)
AttemptResult(resp) ==
    IF resp.raises THEN "except"
    ELSE IF resp.text = << >> THEN "continue"
    ELSE LET json_start == Find(resp.text, LBrace)
             json_end == RFind(resp.text, RBrace)
         IN  IF json_start = -1 \/ json_end = -1 THEN "continue"
             ELSE IF JsonLoads(Slice(resp.text, json_start, json_end + 1)).ok
                  THEN "return"
                  ELSE "except"

\* json.loads(response.text[json_start:json_end+1])
ParsedObject(resp) ==
    JsonLoads(Slice(resp.text, Find(resp.text, LBrace),
                    RFind(resp.text, RBrace) + 1)).obj

\* time.sleep(2) is reached only past the except clauses, and only if i < 2
SleepsAfter(result, n) == IF result = "except" /\ n < RetryCount - 1 THEN 1 ELSE 0

\* Truth values of Python objects
DictTruthy(d) == d.keys # {}
ResultTruthy(r) == ~r.isNone /\ DictTruthy(r.obj)
\* social_posts.get("twitter_thread") is a non-empty list
ThreadTruthy(r) == "twitter_thread" \in r.obj.keys /\ r.obj.twitter_thread > 0
TweetIdTruthy(id) == id # NoTweet /\ id # 0

\* A bug: the last of the four keys is left out of the test.
TwitterKeysSet_ThreeKeys(e) ==
    /\ e.TWITTER_API_KEY
    /\ e.TWITTER_API_SECRET
    /\ e.TWITTER_ACCESS_TOKEN

\* all([TWITTER_API_KEY, TWITTER_API_SECRET, TWITTER_ACCESS_TOKEN, TWITTER_ACCESS_TOKEN_SECRET])
TwitterKeysSet(e) ==
    /\ e.TWITTER_API_KEY
    /\ e.TWITTER_API_SECRET
    /\ e.TWITTER_ACCESS_TOKEN
    /\ e.TWITTER_ACCESS_TOKEN_SECRET

\* A bug: every reply is made to the tweet that opened the thread.
ReplyParent_Root(last) == IF tweets = << >> THEN NoTweet ELSE tweets[1].id

\* in_reply_to_tweet_id of the next create_tweet call: `if last_tweet_id:`
ReplyParent(last) == IF TweetIdTruthy(last) THEN last ELSE NoTweet

\* A bug: the membership test is dropped, every post counts as new.
IsProcessed_Never(post_id, processed) == FALSE

\* `if post_id not in processed_posts` is false
IsProcessed(post_id, processed) == post_id \in processed

\* A bug: `if twitter_post_successful is not None:` takes False for success.
PostSucceeded_NotNone(result) == result # "None"

\* `if twitter_post_successful:` (True, False, or None for missing keys)
PostSucceeded(result) == result = "True"

(***************************************************************************)
(* Initial state: the environment and the file as a run may find them.     *)
(***************************************************************************)
EnvNames ==
    {"GOOGLE_API_KEY", "TWITTER_API_KEY", "TWITTER_API_SECRET",
     "TWITTER_ACCESS_TOKEN", "TWITTER_ACCESS_TOKEN_SECRET"}

\* Every variable set, or one of them unset or empty, or none set.
Envs ==
    { [n \in EnvNames |-> TRUE], [n \in EnvNames |-> FALSE] }
    \cup { [n \in EnvNames |-> n # missing] : missing \in EnvNames }

NoFile == [exists |-> FALSE, text |-> << >>]

InitFiles == { NoFile, save_processed_post(NoFile, StrA) }

\* The locals of main() and of its callees before they are assigned.
FreshRun ==
    /\ pc' = "start"
    /\ processed_posts' = {}
    /\ posts' = << >>
    /\ idx' = 0
    /\ i' = 0
    /\ social_posts' = None
    /\ twitter_thread' = 0
    /\ seg' = 0
    /\ last_tweet_id' = NoTweet
    /\ twitter_post_successful' = "unset"
    /\ attempt_log' = << >>
    /\ sleeps' = 0
    /\ synth_calls' = << >>
    /\ pub_calls' = << >>
    /\ commits' = << >>
    /\ tweets' = << >>
    /\ create_calls' = 0
    /\ failed_at' = 0
    /\ outcome' = << >>

Init ==
    /\ env \in Envs
    /\ file \in InitFiles
    /\ file0 = file
    /\ run = 1
    /\ pc = "start"
    /\ processed_posts = {}
    /\ posts = << >>
    /\ idx = 0
    /\ i = 0
    /\ social_posts = None
    /\ twitter_thread = 0
    /\ seg = 0
    /\ last_tweet_id = NoTweet
    /\ twitter_post_successful = "unset"
    /\ attempt_log = << >>
    /\ sleeps = 0
    /\ synth_calls = << >>
    /\ pub_calls = << >>
    /\ commits = << >>
    /\ tweets = << >>
    /\ create_calls = 0
    /\ failed_at = 0
    /\ outcome = << >>

mainVars == << processed_posts, posts, idx, outcome >>
summarizeVars == << i, social_posts, attempt_log, sleeps, synth_calls >>

\* The frame of summarize_with_gemini is gone once main() has tested what
\* it returned.
SummarizeDone ==
    /\ i' = 0
    /\ attempt_log' = << >>
    /\ sleeps' = 0
    /\ UNCHANGED << social_posts, synth_calls >>
postVars == << twitter_thread, seg, last_tweet_id, twitter_post_successful,
               pub_calls, tweets, create_calls, failed_at >>
storeVars == << file, commits >>
worldVars == << env, run, file0 >>

Mark(what) == [outcome EXCEPT ![idx] = what]

(***************************************************************************)
(* main()                                                                  *)
(***************************************************************************)
\* A bug: the missing key is logged but the `return` is left out.
MainNoApiKey_GoesOn ==
    /\ pc = "start"
    /\ ~env.GOOGLE_API_KEY
    /\ pc' = "load"
    /\ UNCHANGED << mainVars, summarizeVars, postVars, storeVars, worldVars >>

\* if not GOOGLE_API_KEY: return
MainNoApiKey ==
    /\ pc = "start"
    /\ ~env.GOOGLE_API_KEY
    /\ pc' = "done"
    /\ UNCHANGED << mainVars, summarizeVars, postVars, storeVars, worldVars >>

MainStart ==
    /\ pc = "start"
    /\ env.GOOGLE_API_KEY
    /\ pc' = "load"
    /\ UNCHANGED << mainVars, summarizeVars, postVars, storeVars, worldVars >>

\* processed_posts = load_processed_posts()
MainLoad ==
    /\ pc = "load"
    /\ processed_posts' = load_processed_posts(file)
    /\ pc' = "fetch"
    /\ UNCHANGED << posts, idx, outcome, summarizeVars, postVars, storeVars, worldVars >>

\* posts = get_latest_posts()
MainFetch ==
    /\ pc = "fetch"
    /\ \E feed \in Feeds :
         /\ posts' = feed
         /\ outcome' = [n \in 1..Len(feed) |-> "none"]
    /\ idx' = 1
    /\ pc' = "loop"
    /\ UNCHANGED << processed_posts, summarizeVars, postVars, storeVars, worldVars >>

\* the for loop has run out of posts
MainLoopEnd ==
    /\ pc = "loop"
    /\ idx > Len(posts)
    /\ pc' = "done"
    /\ UNCHANGED << mainVars, summarizeVars, postVars, storeVars, worldVars >>

\* A bug: the loop does not move on from a post it has skipped.
MainSkipProcessed_Stays ==
    /\ pc = "loop"
    /\ idx <= Len(posts)
    /\ IsProcessed(PostId(posts[idx]), processed_posts)
    /\ outcome' = Mark("processed")
    /\ UNCHANGED << pc, idx, processed_posts, posts, summarizeVars, postVars, storeVars, worldVars >>

\* post_id in processed_posts: next post
MainSkipProcessed ==
    /\ pc = "loop"
    /\ idx <= Len(posts)
    /\ IsProcessed(PostId(posts[idx]), processed_posts)
    /\ idx' = idx + 1
    /\ outcome' = Mark("processed")
    /\ UNCHANGED << pc, processed_posts, posts, summarizeVars, postVars, storeVars, worldVars >>

\* A bug: `break` for `continue`, a post with no summary ends the run.
MainSkipNoSummary_EndsRun ==
    /\ pc = "loop"
    /\ idx <= Len(posts)
    /\ ~IsProcessed(PostId(posts[idx]), processed_posts)
    /\ NoSummary(posts[idx])
    /\ outcome' = Mark("no_summary")
    /\ pc' = "done"
    /\ UNCHANGED << processed_posts, posts, idx, summarizeVars, postVars, storeVars, worldVars >>

\* if not original_summary: continue
MainSkipNoSummary ==
    /\ pc = "loop"
    /\ idx <= Len(posts)
    /\ ~IsProcessed(PostId(posts[idx]), processed_posts)
    /\ NoSummary(posts[idx])
    /\ idx' = idx + 1
    /\ outcome' = Mark("no_summary")
    /\ UNCHANGED << pc, processed_posts, posts, summarizeVars, postVars, storeVars, worldVars >>

\* social_posts = summarize_with_gemini(...): the call
MainCallSummarize ==
    /\ pc = "loop"
    /\ idx <= Len(posts)
    /\ ~IsProcessed(PostId(posts[idx]), processed_posts)
    /\ ~NoSummary(posts[idx])
    /\ pc' = "summarize"
    /\ i' = 0
    /\ attempt_log' = << >>
    /\ sleeps' = 0
    /\ synth_calls' = Append(synth_calls, idx)
    /\ UNCHANGED << social_posts, mainVars, postVars, storeVars, worldVars >>

(***************************************************************************)
(* summarize_with_gemini(): one pass of `for i in range(3)` per step; the  *)
(* pass that ends the loop also returns to main().                         *)
(***************************************************************************)
SummarizeFrom(responses) ==
    /\ pc = "summarize"
    /\ i < RetryCount
    /\ \E resp \in responses :
         LET result == AttemptResult(resp)
         IN  /\ attempt_log' = Append(attempt_log, result)
             /\ IF result = "return"
                THEN /\ social_posts' = Some(ParsedObject(resp))
                     /\ pc' = "dispatch"
                     /\ UNCHANGED << i, sleeps >>
                ELSE /\ sleeps' = sleeps + SleepsAfter(result, i)
                     /\ i' = i + 1
                     /\ IF i + 1 = RetryCount
                        THEN social_posts' = None /\ pc' = "dispatch"
                        ELSE UNCHANGED << social_posts, pc >>
    /\ UNCHANGED << synth_calls, mainVars, postVars, storeVars, worldVars >>

SummarizeAttempt == SummarizeFrom(Responses)

\* The backend answers with a thread that is not in the format asked for.
SummarizeAttemptOffFormat == SummarizeFrom(OffFormatResponses)

(***************************************************************************)
(* main(), after summarize_with_gemini returned                            *)
(***************************************************************************)
\* A bug: `break` for `continue`, a failed synthesis ends the run.
MainSynthFailed_EndsRun ==
    /\ pc = "dispatch"
    /\ ~ResultTruthy(social_posts)
    /\ outcome' = Mark("synth_failed")
    /\ pc' = "done"
    /\ SummarizeDone
    /\ UNCHANGED << processed_posts, posts, idx, postVars, storeVars, worldVars >>

\* if not social_posts: continue
MainSynthFailed ==
    /\ pc = "dispatch"
    /\ ~ResultTruthy(social_posts)
    /\ idx' = idx + 1
    /\ outcome' = Mark("synth_failed")
    /\ pc' = "loop"
    /\ SummarizeDone
    /\ UNCHANGED << processed_posts, posts, postVars, storeVars, worldVars >>

\* A bug: the post with no thread is left uncommitted.
MainNoThread_NoCommit ==
    /\ pc = "dispatch"
    /\ ResultTruthy(social_posts)
    /\ ~ThreadTruthy(social_posts)
    /\ twitter_thread' = 0
    /\ outcome' = Mark("no_thread")
    /\ pc' = "done"
    /\ SummarizeDone
    /\ UNCHANGED << processed_posts, posts, idx, seg, last_tweet_id,
                    twitter_post_successful, pub_calls, tweets, create_calls,
                    failed_at, storeVars, worldVars >>

\* twitter_thread is None or empty: save_processed_post(post_id); break
MainNoThread ==
    /\ pc = "dispatch"
    /\ ResultTruthy(social_posts)
    /\ ~ThreadTruthy(social_posts)
    /\ twitter_thread' = 0
    /\ file' = save_processed_post(file, PostId(posts[idx]))
    /\ commits' = Append(commits, idx)
    /\ outcome' = Mark("no_thread")
    /\ pc' = "done"
    /\ SummarizeDone
    /\ UNCHANGED << processed_posts, posts, idx, seg, last_tweet_id,
                    twitter_post_successful, pub_calls, tweets, create_calls,
                    failed_at, worldVars >>

\* twitter_post_successful = post_to_twitter(twitter_thread): the call, up
\* to the check of the four keys, which returns None when one is missing
MainCallPost ==
    /\ pc = "dispatch"
    /\ ResultTruthy(social_posts)
    /\ ThreadTruthy(social_posts)
    /\ twitter_thread' = social_posts.obj.twitter_thread
    /\ pub_calls' = Append(pub_calls, idx)
    /\ seg' = 0
    /\ last_tweet_id' = NoTweet
    /\ IF TwitterKeysSet(env)
       THEN pc' = "posting" /\ UNCHANGED twitter_post_successful
       ELSE pc' = "post_ret" /\ twitter_post_successful' = "None"
    /\ SummarizeDone
    /\ UNCHANGED << tweets, create_calls, failed_at, mainVars, storeVars, worldVars >>

(***************************************************************************)
(* post_to_twitter(): one create_tweet call per step; the call that ends   *)
(* the loop (the last segment, or an exception) also returns to main().    *)
(***************************************************************************)
Tweet(text, in_reply_to, id) ==
    [text |-> text, in_reply_to |-> in_reply_to, id |-> id]

\* response.data['id']: the platform names a tweet by a non-empty string of
\* digits, never None, 0 or ""; two such ids stand for them.
TweetIds == {7, 8}

\* A bug: the exception is caught inside the loop, which goes on with the
\* next segment.
PostCreateFails_GoesOn ==
    /\ pc = "posting"
    /\ seg < twitter_thread
    /\ create_calls' = create_calls + 1
    /\ failed_at' = seg + 1
    /\ seg' = seg + 1
    /\ IF seg + 1 = twitter_thread
       THEN pc' = "post_ret" /\ twitter_post_successful' = "False"
       ELSE UNCHANGED << pc, twitter_post_successful >>
    /\ UNCHANGED << twitter_thread, last_tweet_id, pub_calls, tweets,
                    mainVars, summarizeVars, storeVars, worldVars >>

\* client.create_tweet(...) raises: except Exception: return False
PostCreateFails ==
    /\ pc = "posting"
    /\ seg < twitter_thread
    /\ create_calls' = create_calls + 1
    /\ failed_at' = seg + 1
    /\ twitter_post_successful' = "False"
    /\ pc' = "post_ret"
    /\ UNCHANGED << twitter_thread, seg, last_tweet_id, pub_calls, tweets,
                    mainVars, summarizeVars, storeVars, worldVars >>

\* client.create_tweet(...) returns; last_tweet_id = response.data['id']
PostCreateTweet ==
    /\ pc = "posting"
    /\ seg < twitter_thread
    /\ create_calls' = create_calls + 1
    /\ \E id \in TweetIds :
         /\ tweets' = Append(tweets, Tweet(seg + 1, ReplyParent(last_tweet_id), id))
         /\ last_tweet_id' = id
    /\ seg' = seg + 1
    /\ IF seg + 1 = twitter_thread
       THEN pc' = "post_ret" /\ twitter_post_successful' = "True"
       ELSE UNCHANGED << pc, twitter_post_successful >>
    /\ UNCHANGED << twitter_thread, pub_calls, failed_at, mainVars,
                    summarizeVars, storeVars, worldVars >>

(***************************************************************************)
(* main(), after post_to_twitter returned                                  *)
(***************************************************************************)
\* if twitter_post_successful: save_processed_post(post_id); break
MainPostSucceeded ==
    /\ pc = "post_ret"
    /\ PostSucceeded(twitter_post_successful)
    /\ file' = save_processed_post(file, PostId(posts[idx]))
    /\ commits' = Append(commits, idx)
    /\ outcome' = Mark("published")
    /\ pc' = "done"
    /\ UNCHANGED << processed_posts, posts, idx, summarizeVars, postVars, worldVars >>

\* A bug: `continue` for `break`, a failed publish goes on with the next post.
MainPostFailed_GoesOn ==
    /\ pc = "post_ret"
    /\ ~PostSucceeded(twitter_post_successful)
    /\ outcome' = Mark("publish_failed")
    /\ idx' = idx + 1
    /\ pc' = "loop"
    /\ UNCHANGED << processed_posts, posts, summarizeVars, postVars,
                    storeVars, worldVars >>

\* else: nothing is saved; break
MainPostFailed ==
    /\ pc = "post_ret"
    /\ ~PostSucceeded(twitter_post_successful)
    /\ outcome' = Mark("publish_failed")
    /\ pc' = "done"
    /\ UNCHANGED << processed_posts, posts, idx, summarizeVars, postVars,
                    storeVars, worldVars >>

(***************************************************************************)
(* The scheduler invokes main() again, once the previous run has ended.    *)
(***************************************************************************)
Restart ==
    /\ pc = "done"
    /\ run < MaxRuns
    /\ run' = run + 1
    /\ file0' = file
    /\ FreshRun
    /\ UNCHANGED << env, file >>

Next ==
    \/ MainNoApiKey
    \/ MainStart
    \/ MainLoad
    \/ MainFetch
    \/ MainLoopEnd
    \/ MainSkipProcessed
    \/ MainSkipNoSummary
    \/ MainCallSummarize
    \/ SummarizeAttempt
    \/ MainSynthFailed
    \/ MainNoThread
    \/ MainCallPost
    \/ PostCreateFails
    \/ PostCreateTweet
    \/ MainPostSucceeded
    \/ MainPostFailed
    \/ Restart

Spec == Init /\ [][Next]_vars

(***************************************************************************)
(* File errors.  load_processed_posts and save_processed_post open the     *)
(* file with no try around them, and main() has none either: an OSError    *)
(* (or a UnicodeDecodeError of the read) leaves main() as an exception.    *)
(***************************************************************************)
\* open(PROCESSED_POSTS_FILE, "r") or the read raises: the file exists but
\* cannot be read
MainLoadRaises ==
    /\ pc = "load"
    /\ file.exists
    /\ pc' = "raised"
    /\ UNCHANGED << mainVars, summarizeVars, postVars, storeVars, worldVars >>

\* save_processed_post raises on line 174: the file cannot be appended to
MainNoThreadSaveRaises ==
    /\ pc = "dispatch"
    /\ ResultTruthy(social_posts)
    /\ ~ThreadTruthy(social_posts)
    /\ twitter_thread' = 0
    /\ pc' = "raised"
    /\ SummarizeDone
    /\ UNCHANGED << mainVars, seg, last_tweet_id, twitter_post_successful,
                    pub_calls, tweets, create_calls, failed_at, storeVars,
                    worldVars >>

\* save_processed_post raises on line 168, after the thread was published
MainPostSucceededSaveRaises ==
    /\ pc = "post_ret"
    /\ PostSucceeded(twitter_post_successful)
    /\ pc' = "raised"
    /\ UNCHANGED << mainVars, summarizeVars, postVars, storeVars, worldVars >>

NextFaults ==
    \/ Next
    \/ MainLoadRaises
    \/ MainNoThreadSaveRaises
    \/ MainPostSucceededSaveRaises

SpecFaults == Init /\ [][NextFaults]_vars

(***************************************************************************)
(* The runs in which the backend may also answer off format.               *)
(***************************************************************************)
NextOffFormat ==
    \/ Next
    \/ SummarizeAttemptOffFormat

SpecOffFormat == Init /\ [][NextOffFormat]_vars

(***************************************************************************)
(* Repeated runs over an unchanged feed in which nothing fails: every key  *)
(* is set, every backend answer holds a thread and every create_tweet call *)
(* returns.  Between two runs `posts` keeps the feed the source serves.    *)
(***************************************************************************)
\* Runs enough to commit every post of the feed, one post a run, and one more.
FairRuns == MaxFeed + 1

ThreadResponses ==
    { r \in Responses :
        /\ AttemptResult(r) = "return"
        /\ ThreadTruthy(Some(ParsedObject(r))) }

InitFairRuns ==
    /\ Init
    /\ \A n \in EnvNames : env[n]

\* posts = get_latest_posts(), first run
MainFetchFirstRun ==
    /\ run = 1
    /\ MainFetch

\* posts = get_latest_posts(), later runs: the feed has not changed
MainFetchSameFeed ==
    /\ pc = "fetch"
    /\ run > 1
    /\ outcome' = [n \in 1..Len(posts) |-> "none"]
    /\ idx' = 1
    /\ pc' = "loop"
    /\ UNCHANGED << processed_posts, posts, summarizeVars, postVars, storeVars, worldVars >>

SummarizeAttemptThread == SummarizeFrom(ThreadResponses)

\* The scheduler invokes main() again.
RestartSameFeed ==
    /\ pc = "done"
    /\ run < FairRuns
    /\ run' = run + 1
    /\ file0' = file
    /\ pc' = "start"
    /\ processed_posts' = {}
    /\ idx' = 0
    /\ outcome' = << >>
    /\ i' = 0
    /\ social_posts' = None
    /\ attempt_log' = << >>
    /\ sleeps' = 0
    /\ synth_calls' = << >>
    /\ twitter_thread' = 0
    /\ seg' = 0
    /\ last_tweet_id' = NoTweet
    /\ twitter_post_successful' = "unset"
    /\ pub_calls' = << >>
    /\ tweets' = << >>
    /\ create_calls' = 0
    /\ failed_at' = 0
    /\ commits' = << >>
    /\ UNCHANGED << env, file, posts >>

NextFairRuns ==
    \/ MainStart
    \/ MainLoad
    \/ MainFetchFirstRun
    \/ MainFetchSameFeed
    \/ MainLoopEnd
    \/ MainSkipProcessed
    \/ MainSkipNoSummary
    \/ MainCallSummarize
    \/ SummarizeAttemptThread
    \/ MainCallPost
    \/ PostCreateTweet
    \/ MainPostSucceeded
    \/ RestartSameFeed

SpecFairRuns == InitFairRuns /\ [][NextFairRuns]_vars

(***************************************************************************)
(* Properties                                                              *)
(***************************************************************************)
Range(q) == { q[n] : n \in 1..Len(q) }

\* The text that committing the feed positions cs, in order, appends.
RECURSIVE CommitLines(_)
CommitLines(cs) ==
    IF cs = << >> THEN << >>
    ELSE PostId(posts[Head(cs)]) \o << NL >> \o CommitLines(Tail(cs))

\* The whole thread of feed position j was posted and post_to_twitter
\* returned True.
PublishedInFull(j) ==
    /\ j \in Range(pub_calls)
    /\ twitter_post_successful = "True"
    /\ failed_at = 0
    /\ Len(tweets) = twitter_thread
    /\ twitter_thread >= 1

\* summarize_with_gemini returned an object for position j whose
\* twitter_thread is missing or empty, and nothing was published for it.
NothingToPublish(j) ==
    /\ j \in Range(synth_calls)
    /\ j \notin Range(pub_calls)
    /\ ~social_posts.isNone
    /\ ~ThreadTruthy(social_posts)

\* C1: in every state of a run, killed or not, processed_posts.txt is the
\* file the run found plus one line per commit of this run, and every
\* commit is of a post whose whole thread post_to_twitter has already
\* reported posted, or whose synthesized result had no or an empty
\* twitter_thread; a post whose synthesis or publishing failed is not
\* committed.
C1_CommitOnlyAfterOutcome ==
    /\ file.text = file0.text \o CommitLines(commits)
    /\ \A j \in Range(commits) : PublishedInFull(j) \/ NothingToPublish(j)
    /\ \A j \in 1..Len(outcome) :
         outcome[j] \in {"synth_failed", "publish_failed"} => j \notin Range(commits)
    /\ (pc \in {"summarize", "dispatch", "posting", "post_ret"} => idx \notin Range(commits))

\* A run that found a file with a line in it has published a whole thread
\* of three tweets and committed the post.
C1_Witness ==
    /\ pc = "done"
    /\ file0.text # << >>
    /\ Len(commits) = 1
    /\ PublishedInFull(commits[1])
    /\ twitter_thread = 3

\* C2: a feed position whose identifier is in the set loaded at the start
\* of the run is never passed to summarize_with_gemini or post_to_twitter
\* and never committed; a run over a feed with no new post makes no
\* backend call, no create_tweet call and leaves the file as it was.
C2_ProcessedNeverReselected ==
    /\ \A j \in 1..Len(posts) :
         PostId(posts[j]) \in processed_posts
           => /\ j \notin Range(synth_calls)
              /\ j \notin Range(pub_calls)
              /\ j \notin Range(commits)
    /\ ( /\ pc \in {"loop", "done"}
         /\ \A j \in 1..Len(posts) : PostId(posts[j]) \in processed_posts )
       => /\ synth_calls = << >>
          /\ pub_calls = << >>
          /\ commits = << >>
          /\ attempt_log = << >>
          /\ create_calls = 0
          /\ file = file0

\* A run has scanned a feed of two posts, both already processed, and ended.
C2_Witness ==
    /\ pc = "done"
    /\ Len(posts) = 2
    /\ idx = 3
    /\ \A j \in 1..2 : PostId(posts[j]) \in processed_posts

\* C3: when the k-th create_tweet call of a thread raises, exactly the
\* segments 1..k-1 have been posted, k calls have been made and no more
\* are made, post_to_twitter returns False and the post is not committed.
C3_FailureStopsThread ==
    failed_at > 0
      => /\ failed_at <= twitter_thread
         /\ Len(tweets) = failed_at - 1
         /\ \A n \in 1..Len(tweets) : tweets[n].text = n
         /\ create_calls = failed_at
         /\ twitter_post_successful = "False"
         /\ pc \in {"post_ret", "done"}
         /\ commits = << >>
         /\ file = file0

\* The second create_tweet call of a thread of three raised; the run ended.
C3_Witness ==
    /\ pc = "done"
    /\ twitter_thread = 3
    /\ failed_at = 2
    /\ Len(tweets) = 1

\* C4: the segments are posted in thread order, the first with no parent,
\* every later one in reply to the id the previous create_tweet call
\* returned; post_to_twitter returns True only if every segment was posted.
C4_LinearReplyChain ==
    /\ \A n \in 1..Len(tweets) :
         /\ tweets[n].text = n
         /\ tweets[n].in_reply_to = IF n = 1 THEN NoTweet ELSE tweets[n - 1].id
    /\ twitter_post_successful = "True"
         => Len(tweets) = twitter_thread /\ create_calls = twitter_thread

\* A thread of three was posted in full, the platform returning ids 7, 8, 7.
C4_Witness ==
    /\ twitter_post_successful = "True"
    /\ Len(tweets) = 3
    /\ tweets[1].id = 7
    /\ tweets[2].id = 8
    /\ tweets[3].in_reply_to = 8

Last(q) == q[Len(q)]

\* C5: a call of summarize_with_gemini makes at most 3 backend attempts; the
\* first attempt whose response parses as a JSON object is the last one and
\* its object is what the call returns; after 3 failed attempts the call
\* returns None.
C5_AtMostThreeAttempts ==
    /\ Len(attempt_log) <= 3
    /\ \A n \in 1..(Len(attempt_log) - 1) : attempt_log[n] # "return"
    /\ pc = "summarize"
         => /\ Len(attempt_log) < 3
            /\ i = Len(attempt_log)
            /\ "return" \notin Range(attempt_log)
    /\ pc = "dispatch"
         => /\ attempt_log # << >>
            /\ IF Last(attempt_log) = "return"
               THEN ~social_posts.isNone
               ELSE Len(attempt_log) = 3 /\ social_posts.isNone

\* The second attempt of a call parsed and the call returned its object.
C5_Witness ==
    /\ pc = "dispatch"
    /\ Len(attempt_log) = 2
    /\ attempt_log[1] # "return"
    /\ attempt_log[2] = "return"
    /\ ~social_posts.isNone

\* C6: the delay is waited between every two consecutive attempts and not
\* after the last: twice when all 3 attempts fail, j-1 times when attempt j
\* succeeds, whatever the kind of failure.
C6_DelayBetweenAttempts ==
    pc = "dispatch"
      => sleeps = IF social_posts.isNone THEN 2 ELSE Len(attempt_log) - 1

\* main() reached the publish-or-commit dispatch for position j, after
\* which it breaks out of the loop.
Dispatched(j) == outcome[j] \in {"no_thread", "published", "publish_failed"}

\* The loop went on past position j: every later position was visited, up
\* to the one that broke out of the loop.
VisitedOnward(j) ==
    \A m \in (j + 1)..Len(posts) :
        outcome[m] # "none" \/ \E d \in (j + 1)..(m - 1) : Dispatched(d)

\* C7 as stated: a failed synthesis ends the run, no later feed item is
\* evaluated and summarize_with_gemini is called for at most one item.
C7_SynthFailureEndsRun ==
    /\ Len(synth_calls) <= 1
    /\ \A j \in 1..Len(outcome) :
         outcome[j] = "synth_failed"
           => \A m \in (j + 1)..Len(outcome) : outcome[m] = "none"

\* C7 as amended: a post whose synthesis returned nothing usable is neither
\* published nor committed, and main() goes on with the next feed item in
\* the same run; summarize_with_gemini is called at most once per feed
\* position, in feed order, and never again once a post was dispatched.
C7_SynthFailureMovesOn ==
    /\ \A j \in 1..Len(outcome) :
         outcome[j] = "synth_failed"
           => /\ j \in Range(synth_calls)
              /\ j \notin Range(pub_calls)
              /\ j \notin Range(commits)
              /\ idx > j
              /\ (pc = "done" => VisitedOnward(j))
    /\ \A a, b \in 1..Len(synth_calls) : a < b => synth_calls[a] < synth_calls[b]
    /\ \A j \in 1..Len(outcome) : Dispatched(j) => Last(synth_calls) = j

\* The synthesis of the first post failed; the run went on, and published
\* and committed the second.
C7_Witness ==
    /\ pc = "done"
    /\ Len(posts) = 2
    /\ outcome[1] = "synth_failed"
    /\ outcome[2] = "published"
    /\ synth_calls = << 1, 2 >>

\* The first feed position whose identifier is not in the loaded set, 0 if
\* there is none.
FirstNew ==
    LET new == { j \in 1..Len(posts) : PostId(posts[j]) \notin processed_posts }
    IN  IF new = {} THEN 0 ELSE CHOOSE j \in new : \A m \in new : j <= m

\* C8 as stated: when the first new post has no summary the run ends there:
\* no later item is selected, nothing is synthesized, published or committed.
C8_NoSummaryEndsRun ==
    (FirstNew > 0 /\ NoSummary(posts[FirstNew]))
      => /\ synth_calls = << >>
         /\ pub_calls = << >>
         /\ commits = << >>
         /\ \A m \in (FirstNew + 1)..Len(outcome) : outcome[m] = "none"

\* C8 as amended: when the first new post has no summary it is neither
\* synthesized, published nor committed, and the run goes on with the later
\* feed items in order.
C8_NoSummaryMovesOn ==
    (FirstNew > 0 /\ NoSummary(posts[FirstNew]))
      => /\ FirstNew \notin Range(synth_calls)
         /\ FirstNew \notin Range(pub_calls)
         /\ FirstNew \notin Range(commits)
         /\ outcome[FirstNew] \in {"none", "no_summary"}
         /\ (outcome[FirstNew] = "no_summary" => idx > FirstNew)
         /\ (pc = "done" => outcome[FirstNew] = "no_summary" /\ VisitedOnward(FirstNew))

\* The first new post had no summary; the run went on, and synthesized and
\* committed the post after it.
C8_Witness ==
    /\ pc = "done"
    /\ Len(posts) = 2
    /\ FirstNew = 1
    /\ NoSummary(posts[1])
    /\ synth_calls = << 2 >>
    /\ commits = << 2 >>

\* summarize_with_gemini returned an object and main() has tested it.
ObjectConsumed ==
    /\ pc \in {"loop", "done"}
    /\ synth_calls # << >>
    /\ ~social_posts.isNone

\* C9: whenever summarize_with_gemini returned a parsed object whose
\* twitter_thread is absent or empty, the object with no field included,
\* main() commits the post without calling post_to_twitter and ends the run.
C9_NoThreadCommitted ==
    (ObjectConsumed /\ ~ThreadTruthy(social_posts))
      => /\ pc = "done"
         /\ pub_calls = << >>
         /\ commits = << Last(synth_calls) >>
         /\ file = save_processed_post(file0, PostId(posts[Last(synth_calls)]))

\* C10 as stated: an object without twitter_thread is not returned by
\* summarize_with_gemini.
C10_MissingFieldRetried ==
    (pc = "dispatch" /\ ~social_posts.isNone)
      => "twitter_thread" \in social_posts.obj.keys

\* C10 as amended: an object without twitter_thread is returned by the
\* attempt that parsed it, with no further attempt; main() then commits the
\* post without publishing when the object has some other field, and
\* leaves it uncommitted and goes on when the object is empty.
C10_MissingFieldReturned ==
    LET lacks == /\ ~social_posts.isNone
                 /\ "twitter_thread" \notin social_posts.obj.keys
        j == Last(synth_calls)
    IN  /\ (pc = "dispatch" /\ lacks)
          => Last(attempt_log) = "return" /\ i = Len(attempt_log) - 1
        /\ (ObjectConsumed /\ lacks)
          => IF DictTruthy(social_posts.obj)
             THEN /\ pc = "done"
                  /\ outcome[j] = "no_thread"
                  /\ commits = << j >>
                  /\ pub_calls = << >>
                  /\ file = save_processed_post(file0, PostId(posts[j]))
             ELSE /\ outcome[j] = "synth_failed"
                  /\ j \notin Range(commits)
                  /\ idx > j

\* The backend answered with an object that has another key only; the post
\* was committed and nothing was published.
C10_Witness ==
    /\ pc = "done"
    /\ ~social_posts.isNone
    /\ social_posts.obj.keys = {"k"}
    /\ Len(commits) = 1
    /\ tweets = << >>


\* C11: a run calls post_to_twitter at most once and save_processed_post at
\* most once; once a post has reached the publish-or-commit dispatch the
\* run ends: no later feed position is visited, synthesized, published or
\* committed.
C11_OneItemPerRun ==
    /\ Len(pub_calls) <= 1
    /\ Len(commits) <= 1
    /\ \A j \in 1..Len(outcome) :
         Dispatched(j)
           => /\ pc = "done"
              /\ idx = j
              /\ Last(synth_calls) = j
              /\ Range(pub_calls) \subseteq {j}
              /\ Range(commits) \subseteq {j}
              /\ \A m \in (j + 1)..Len(outcome) : outcome[m] = "none"

\* The publishing of the first of two new posts failed; the run ended with
\* the second post untouched.
C11_Witness ==
    /\ pc = "done"
    /\ Len(posts) = 2
    /\ outcome = << "publish_failed", "none" >>
    /\ PostId(posts[2]) \notin processed_posts
    /\ ~NoSummary(posts[2])


\* C12: across the runs processed_posts.txt holds at most one line per
\* identifier, whatever the identifier strings: no identifier is committed
\* twice.
C12_OneLinePerIdentifier ==
    LET lines == FileLines(file.text, << >>)
    IN  \A a, b \in 1..Len(lines) : a # b => lines[a] # lines[b]


\* C13: once save_processed_post(id) has returned, id is in the set
\* load_processed_posts() returns; a second save_processed_post(id) leaves
\* id in the set and the set as it was after the first.
C13_SavedIsLoaded ==
    \A j \in Range(commits) :
        LET id == PostId(posts[j])
            twice == save_processed_post(file, id)
        IN  /\ id \in load_processed_posts(file)
            /\ id \in load_processed_posts(twice)
            /\ load_processed_posts(twice) = load_processed_posts(file)


\* C14: main() returns normally whatever fails inside it: an unreadable
\* processed_posts.txt, a backend exception, a failed create_tweet or a
\* failed append; no exception leaves main().
C14_MainReturnsNormally == pc # "raised"


\* C15: when one of the four Twitter keys is unset or empty, post_to_twitter
\* makes no create_tweet call and does not return True, and main() does not
\* commit the post it was called for: the post is still new for the next run.
C15_MissingKeysNoPost ==
    (\E n \in EnvNames \ {"GOOGLE_API_KEY"} : ~env[n])
      => /\ create_calls = 0
         /\ tweets = << >>
         /\ twitter_post_successful \in {"unset", "None"}
         /\ \A j \in Range(pub_calls) :
              /\ j \notin Range(commits)
              /\ twitter_post_successful = "None"
              /\ pc \in {"post_ret", "done"}
              /\ file = file0
              /\ PostId(posts[j]) \notin load_processed_posts(file)
              /\ (pc = "done" => outcome[j] = "publish_failed")

\* TWITTER_ACCESS_TOKEN_SECRET alone is missing; post_to_twitter was called
\* with a thread of three and the run ended.
C15_Witness ==
    /\ pc = "done"
    /\ env.TWITTER_API_KEY /\ env.TWITTER_API_SECRET /\ env.TWITTER_ACCESS_TOKEN
    /\ ~env.TWITTER_ACCESS_TOKEN_SECRET
    /\ pub_calls = << 1 >>
    /\ twitter_thread = 3
    /\ twitter_post_successful = "None"


\* C16: with GOOGLE_API_KEY unset or empty a run ends before it loads
\* processed_posts.txt or fetches the feed: no feed entry is touched,
\* nothing is synthesized or published and the file stays as it was.
C16_NoApiKeyNoWork ==
    ~env.GOOGLE_API_KEY
      => /\ pc \in {"start", "done"}
         /\ processed_posts = {}
         /\ posts = << >>
         /\ outcome = << >>
         /\ synth_calls = << >>
         /\ attempt_log = << >>
         /\ pub_calls = << >>
         /\ create_calls = 0
         /\ commits = << >>
         /\ file = file0

\* A run with no GOOGLE_API_KEY has ended; processed_posts.txt holds a line
\* the run never loaded.
C16_Witness ==
    /\ ~env.GOOGLE_API_KEY
    /\ pc = "done"
    /\ load_processed_posts(file) # {}
    /\ processed_posts = {}


\* C17: summarize_with_gemini never returns a thread whose first tweet
\* leaves out the date, the title or the link, so no such thread is passed
\* to post_to_twitter.
C17_ThreadContractEnforced ==
    /\ (pc = "dispatch" /\ ~social_posts.isNone /\ ThreadTruthy(social_posts))
         => social_posts.obj.first_ok
    /\ pub_calls # << >> => social_posts.obj.first_ok


\* The step appends one line to processed_posts.txt and changes nothing
\* that was in it.
AppendsOneLine ==
    /\ file'.exists
    /\ Len(file'.text) > Len(file.text)
    /\ SubSeq(file'.text, 1, Len(file.text)) = file.text
    /\ Len(FileLines(file'.text, << >>)) = Len(FileLines(file.text, << >>)) + 1

C19_EveryPostCommitted ==
    (pc = "done" /\ run = FairRuns)
      => \A j \in 1..Len(posts) :
           ~NoSummary(posts[j])
             => (PostId(posts[j]) \o << NL >>) \in Range(FileLines(file.text, << >>))


\* The most steps one feed entry takes: the call of summarize_with_gemini,
\* its attempts, the dispatch, the create_tweet calls and the return of
\* post_to_twitter.
StepsPerPost == RetryCount + MaxThread + 3

\* The steps the loop of main() has left once the entry at idx is done with.
StepsAfterPost == (Len(posts) - idx) * StepsPerPost + 1

\* A bound on the steps the run has left.
StepsLeft ==
    CASE pc = "start"     -> MaxFeed * StepsPerPost + 4
      [] pc = "load"      -> MaxFeed * StepsPerPost + 3
      [] pc = "fetch"     -> MaxFeed * StepsPerPost + 2
      [] pc = "loop"      -> StepsAfterPost + StepsPerPost
      [] pc = "summarize" -> StepsAfterPost + (RetryCount - i) + MaxThread + 2
      [] pc = "dispatch"  -> StepsAfterPost + MaxThread + 2
      [] pc = "posting"   -> StepsAfterPost + (twitter_thread - seg) + 1
      [] pc = "post_ret"  -> StepsAfterPost + 1
      [] OTHER            -> 0

NoDuplicates(s) == \A a, b \in 1..Len(s) : a # b => s[a] # s[b]

\* The resources a run has used so far are within their limits.
RunWithinLimits ==
    /\ StepsLeft \in Nat
    /\ pc # "done" => ENABLED Next
    /\ Len(attempt_log) <= RetryCount
    /\ seg <= twitter_thread
    /\ create_calls = seg + (IF failed_at = 0 THEN 0 ELSE 1)
    /\ create_calls <= twitter_thread
    /\ \A k \in 1..Len(tweets) : tweets[k].text = k
    /\ NoDuplicates(synth_calls)
    /\ NoDuplicates(pub_calls)
    /\ \A j \in 1..Len(outcome) : outcome[j] # "none" => j <= idx

\* A step of a run comes nearer to the end of the run and never goes back to
\* a feed entry.
RunStep ==
    pc # "done"
      => /\ StepsLeft' < StepsLeft
         /\ idx' >= idx
         /\ \A j \in 1..Len(outcome) : outcome[j] # "none" => outcome'[j] = outcome[j]

\* C20: every run of main() ends: while it has not, a step can be taken, and
\* every step lowers a natural number that bounds the steps left; a run makes
\* 3 attempts at most for a post, one create_tweet call at most for a
\* segment of the thread, and visits no feed entry twice.
C20_RunTerminates == []RunWithinLimits /\ [][RunStep]_vars

C20_Witness ==
    /\ pc = "done"
    /\ Len(posts) = 2
    /\ outcome = << "synth_failed", "publish_failed" >>
    /\ twitter_thread = 3
    /\ create_calls = 3
    /\ failed_at = 3

====
